---- MODULE Spec2Model ----
(***************************************************************************)
(* PDF Q&A Assistant: the document store (PDFProcessor), the embedding     *)
(* index and query pipeline (QAEngine) and the HTTP handlers of main.py    *)
(* that drive them.                                                        *)
(*                                                                         *)
(* Strings are sequences of one-character strings.  Scores are integers in *)
(* thousandths (0.3 is 300).  The handlers are `async def` bodies without  *)
(* any await, so each one runs to completion on the event loop: one action *)
(* per handler.  The files the handlers keep under uploads/ are written    *)
(* and removed but never decide anything, and are left out.                *)
(*                                                                         *)
(* Spec and SpecOk run the handlers.  SpecCalls runs one component call    *)
(* per behaviour (chunker, search, validator, answer synthesis, query) on  *)
(* arguments the handlers never pass, recorded in the variable call.       *)
(* SpecTracked runs the handlers and keeps, in the variable history, the   *)
(* upload each corpus entry comes from.                                    *)
(***************************************************************************)
EXTENDS Integers, Sequences, FiniteSets, TLC

VARIABLES documents, pp_text_chunks, text_chunks, embeddings, last, call, history

vars == <<documents, pp_text_chunks, text_chunks, embeddings, last, call, history>>

(***************************************************************************)
(* Bounds                                                                  *)
(***************************************************************************)
\* largest number of chunks PDFProcessor.text_chunks may hold before further
\* uploads are held back (it only shrinks on /clear)
MaxChunks == 2

\* letters in the long words of LongText
WordLen == 25

\* PDFProcessor() chunk parameters, scaled down from 500 / 50 so that a file
\* of a few words spans several chunks
chunk_size == 2
overlap == 1

\* most words in a text handed to the chunker on its own
MaxWords == 8

\* largest chunk size and overlap handed to the chunker on its own
MaxChunkSize == 5

\* largest result count asked of a search or a query on its own
MaxTopK == 4

(***************************************************************************)
(* Python string helpers                                                   *)
(***************************************************************************)
NUL == "NUL"

IsSpace(c) == c \in {" ", "\n"}

\* the class [a-zA-Z]
IsAsciiLetter(c) ==
    c \in {"a", "b", "c", "d", "e", "f", "g", "h", "i", "j", "k", "l", "m",
           "n", "o", "p", "q", "r", "s", "t", "u", "v", "w", "x", "y", "z",
           "A", "B", "C", "D", "E", "F", "G", "H", "I", "J", "K", "L", "M",
           "N", "O", "P", "Q", "R", "S", "T", "U", "V", "W", "X", "Y", "Z"}

\* str.isalpha() of one character: any Unicode letter
IsAlpha(c) == IsAsciiLetter(c) \/ c = "é"

\* the least element of a finite set of integers, none if the set is empty
Least(set, none) ==
    IF set = {} THEN none ELSE CHOOSE m \in set : \A k \in set : m <= k

\* least index j in i..Len(s) with s[j] whitespace, Len(s) + 1 if there is none
NextSpace(s, i) == Least({j \in i..Len(s) : IsSpace(s[j])}, Len(s) + 1)

\* least index j in i..Len(s) with s[j] not whitespace, Len(s) + 1 if there is none
NextWord(s, i) ==
    IF i <= Len(s) /\ ~IsSpace(s[i]) THEN i
    ELSE Least({j \in i..Len(s) : ~IsSpace(s[j])}, Len(s) + 1)

\* the indices of s where a maximal run of non-whitespace starts
WordStarts(s) == {i \in 1..Len(s) : ~IsSpace(s[i]) /\ (i = 1 \/ IsSpace(s[i - 1]))}

\* the k-th least element of a finite set of integers
Nth(set, k) == CHOOSE m \in set : Cardinality({j \in set : j <= m}) = k

\* the run of non-whitespace of s that starts at index start
WordAt(s, start) == SubSeq(s, start, NextSpace(s, start) - 1)

\* str.split() without arguments: the maximal runs of non-whitespace, in
\* the order of their positions
split(s) ==
    LET starts == WordStarts(s)
    IN  [k \in 1..Cardinality(starts) |-> WordAt(s, Nth(starts, k))]

RECURSIVE join(_, _)
\* sep.join(parts): the parts in order with sep between neighbours, put
\* together half by half
join(sep, parts) ==
    IF parts = <<>> THEN <<>>
    ELSE IF Len(parts) = 1 THEN parts[1]
    ELSE LET half == Len(parts) \div 2
         IN  join(sep, SubSeq(parts, 1, half))
                 \o sep \o join(sep, SubSeq(parts, half + 1, Len(parts)))

\* s.replace(c, '')
Remove(s, c) == SelectSeq(s, LAMBDA x : x # c)

\* s[-n:] of a list
LastN(s, n) ==
    IF n = 0 \/ n >= Len(s) THEN s
    ELSE SubSeq(s, Len(s) - n + 1, Len(s))

(***************************************************************************)
(* PDFProcessor                                                            *)
(***************************************************************************)
_clean_text(text) == Remove(join(<<" ">>, split(text)), NUL)

\* the chunking loop keeping one word too many when it resets the window
RECURSIVE ChunkLoop_wide_overlap(_, _, _, _, _)
ChunkLoop_wide_overlap(words, i, current_chunk, cs, ov) ==
    IF i > Len(words)
    THEN IF current_chunk # <<>> THEN <<join(<<" ">>, current_chunk)>> ELSE <<>>
    ELSE LET cur == Append(current_chunk, words[i])
         IN  IF Len(cur) >= cs
             THEN <<join(<<" ">>, cur)>>
                      \o ChunkLoop_wide_overlap(words, i + 1, LastN(cur, ov + 1), cs, ov)
             ELSE ChunkLoop_wide_overlap(words, i + 1, cur, cs, ov)

\* lines 42-53: the loop over the words and the emission of what remains
RECURSIVE ChunkLoop(_, _, _, _, _)
ChunkLoop(words, i, current_chunk, cs, ov) ==
    IF i > Len(words)
    THEN IF current_chunk # <<>> THEN <<join(<<" ">>, current_chunk)>> ELSE <<>>
    ELSE LET cur == Append(current_chunk, words[i])
         IN  IF Len(cur) >= cs
             THEN <<join(<<" ">>, cur)>> \o ChunkLoop(words, i + 1, LastN(cur, ov), cs, ov)
             ELSE ChunkLoop(words, i + 1, cur, cs, ov)

\* `x or default`: a falsy x falls back to the configured value.  An omitted
\* argument (None) is written 0 here, the two are both falsy.
OrDefault(x, default) == IF x = 0 THEN default ELSE x

\* PDFProcessor.__init__: the two configuration fields, taken as given
PDFProcessor(cs, ov) == [chunk_size |-> cs, overlap |-> ov]

\* main.py line 28: the application's processor, built with the defaults
pdf_processor == PDFProcessor(chunk_size, overlap)

\* chunk_text emitting full windows only: what remains at the end is dropped
chunk_text_full_windows(self, text, cs, ov) ==
    SelectSeq(ChunkLoop(split(text), 1, <<>>,
                        OrDefault(cs, self.chunk_size), OrDefault(ov, self.overlap)),
              LAMBDA chunk : Len(split(chunk)) >= OrDefault(cs, self.chunk_size))

\* PDFProcessor.chunk_text
chunk_text(self, text, cs, ov) ==
    ChunkLoop(split(text), 1, <<>>,
              OrDefault(cs, self.chunk_size), OrDefault(ov, self.overlap))

\* the dict PDFProcessor.documents, as the sequence of its items in insertion
\* order; each item is [name, chunks, full_text]
DictHas(d, k) == \E i \in 1..Len(d) : d[i].name = k

DictNames(d) == {d[i].name : i \in 1..Len(d)}

\* d[k] = v: a key already present keeps its position
DictSet(d, k, v) ==
    IF DictHas(d, k)
    THEN [i \in 1..Len(d) |-> IF d[i].name = k THEN v ELSE d[i]]
    ELSE Append(d, v)

\* del d[k]
DictDel(d, k) == SelectSeq(d, LAMBDA item : item.name # k)

\* filename.endswith('.pdf')
EndsWithPdf(filename) == filename \in {"a.pdf", "b.pdf"}

\* PDFProcessor.extract_text_from_pdf: PyPDF2 raises on a body it cannot read
extract_text_from_pdf(file) == [raised |-> ~file.readable, text |-> file.text]

\* process_pdf registering the document before its text is extracted
process_pdf_store_first(S, file, doc_name) ==
    LET extracted == extract_text_from_pdf(file)
        text      == _clean_text(extracted.text)
        chunks    == chunk_text(pdf_processor, text, 0, 0)
        docs      == DictSet(S.documents, doc_name,
                             [name |-> doc_name, chunks |-> chunks, full_text |-> text])
    IN  [raised |-> extracted.raised, documents |-> docs,
         pp_text_chunks |-> S.pp_text_chunks \o chunks, chunks |-> chunks]

\* PDFProcessor.process_pdf on the file just saved: the processor's fields
\* after the call, the chunks it returns, and whether it raised
process_pdf(S, file, doc_name) ==
    LET extracted == extract_text_from_pdf(file)
        text      == _clean_text(extracted.text)
        chunks    == chunk_text(pdf_processor, text, 0, 0)
    IN  IF extracted.raised
        THEN [raised |-> TRUE, documents |-> S.documents,
              pp_text_chunks |-> S.pp_text_chunks, chunks |-> <<>>]
        ELSE [raised |-> FALSE,
              documents |-> DictSet(S.documents, doc_name,
                                    [name |-> doc_name, chunks |-> chunks, full_text |-> text]),
              pp_text_chunks |-> S.pp_text_chunks \o chunks,
              chunks |-> chunks]

(***************************************************************************)
(* QAEngine: the embedding index                                           *)
(***************************************************************************)
Dims == <<"a", "b", "x">>

Count(s, c) == Len(SelectSeq(s, LAMBDA y : y = c))

\* the embedding capability on one text: a vector of fixed dimension
Embed(text) == [d \in 1..Len(Dims) |-> Count(text, Dims[d])]

\* QAEngine.embeddings is None or a tensor with one row per encoded text
NoIndex == [is_none |-> TRUE, rows |-> <<>>]

Tensor(rows) == [is_none |-> FALSE, rows |-> rows]

\* embedding_model.encode(list, convert_to_tensor=True): one row per text, in order
encode(texts) == Tensor([i \in 1..Len(texts) |-> Embed(texts[i])])

\* add_documents as an incremental update that embeds only the new chunks
add_documents_new_only(S, chunks, embed_ok) ==
    [text_chunks |-> S.text_chunks \o chunks,
     embeddings  |-> IF embed_ok THEN encode(chunks) ELSE S.embeddings,
     raised      |-> ~embed_ok]

\* QAEngine.add_documents; embed_ok says whether the embedding capability
\* answers or raises
add_documents(S, chunks, embed_ok) ==
    LET extended == S.text_chunks \o chunks
    IN  [text_chunks |-> extended,
         embeddings  |-> IF embed_ok THEN encode(extended) ELSE S.embeddings,
         raised      |-> ~embed_ok]

\* QAEngine.clear_documents
clear_documents(S) == [text_chunks |-> <<>>, embeddings |-> NoIndex]

(***************************************************************************)
(* QAEngine: retrieval                                                     *)
(***************************************************************************)
Min(a, b) == IF a < b THEN a ELSE b

Max(a, b) == IF a > b THEN a ELSE b

RECURSIVE LastWordEnd(_, _)
\* greatest index j <= i with s[j] not whitespace, for s with such an index
LastWordEnd(s, i) == IF IsSpace(s[i]) THEN LastWordEnd(s, i - 1) ELSE i

\* str.strip()
strip(s) ==
    LET first == NextWord(s, 1)
    IN  IF first > Len(s) THEN <<>>
        ELSE SubSeq(s, first, LastWordEnd(s, Len(s)))

\* s[a:b] with 0 <= a, b (Python slice of a string)
Slice(s, a, b) == SubSeq(s, a + 1, Min(b, Len(s)))

RECURSIVE Dot(_, _, _)
Dot(u, v, d) == IF d = 0 THEN 0 ELSE u[d] * v[d] + Dot(u, v, d - 1)

\* util.pytorch_cos_sim of two vectors with non-negative entries, as the
\* squared cosine in thousandths (same ranking as the cosine); a zero vector
\* scores 0
cos_sim(u, v) ==
    LET uu == Dot(u, u, Len(u))
        vv == Dot(v, v, Len(v))
        uv == Dot(u, v, Len(u))
    IN  IF uu = 0 \/ vv = 0 THEN 0 ELSE (1000 * uv * uv) \div (uu * vv)

\* a ranking that puts the lower score first
Before_lowest_first(scores, tie, i, j) ==
    \/ scores[i] < scores[j]
    \/ scores[i] = scores[j] /\ (IF tie = "lowest" THEN i < j ELSE i > j)

\* i ranks before j: higher score first; among equal scores torch.topk
\* promises no order, tie says which end of the tensor comes first
Before(scores, tie, i, j) ==
    \/ scores[i] > scores[j]
    \/ scores[i] = scores[j] /\ (IF tie = "lowest" THEN i < j ELSE i > j)

RECURSIVE TopKFrom(_, _, _, _)
TopKFrom(scores, tie, cand, k) ==
    IF k = 0 \/ cand = {} THEN <<>>
    ELSE LET best == CHOOSE i \in cand : \A j \in cand \ {i} : Before(scores, tie, i, j)
         IN  <<best>> \o TopKFrom(scores, tie, cand \ {best}, k - 1)

\* torch.topk(scores, k).indices (1-based here), for 0 <= k <= len(scores)
topk(scores, k, tie) == TopKFrom(scores, tie, DOMAIN scores, k)

\* what search_similar_chunks hands back.  raised: the call ends in an
\* exception; searched: the call got as far as reading self.embeddings and
\* self.text_chunks.
SearchRaised(embed_calls, searched) ==
    [raised |-> TRUE, results |-> <<>>, embed_calls |-> embed_calls, searched |-> searched]

SearchFound(results, embed_calls) ==
    [raised |-> FALSE, results |-> results, embed_calls |-> embed_calls,
     searched |-> embed_calls > 0]

\* lines 55-59: the (chunk, score) pairs of the selected indices
Collect(chunks, scores, idx) ==
    IF \E j \in 1..Len(idx) : idx[j] > Len(chunks)
    THEN \* text_chunks[idx]: IndexError
         SearchRaised(1, TRUE)
    ELSE SearchFound([j \in 1..Len(idx) |->
                         [text |-> chunks[idx[j]], similarity |-> scores[idx[j]]]], 1)

\* line 53: torch.topk rejects k out of range
Select(chunks, scores, k, tie) ==
    IF k < 0 \/ k > Len(scores)
    THEN SearchRaised(1, TRUE)
    ELSE Collect(chunks, scores, topk(scores, k, tie))

\* line 50: the similarity of the query to every row of the index
Scores(q, rows) == [i \in 1..Len(rows) |-> cos_sim(q, rows[i])]

\* QAEngine.search_similar_chunks
search_similar_chunks(S, query, top_k, env) ==
    IF Len(S.text_chunks) = 0
    THEN SearchFound(<<>>, 0)
    ELSE IF ~env.embed_ok
    THEN SearchRaised(1, FALSE)
    ELSE IF S.embeddings.is_none \/ S.embeddings.rows = <<>>
    THEN \* cos_sim of the query with None or with an empty tensor raises
         SearchRaised(1, TRUE)
    ELSE Select(S.text_chunks, Scores(Embed(query), S.embeddings.rows),
                Min(top_k, Len(S.text_chunks)), env.tie)

(***************************************************************************)
(* QAEngine: answer synthesis                                              *)
(***************************************************************************)
\* an answer is one of the fixed messages or a text built from the context
Fixed(msg) == [fixed |-> msg, text |-> <<>>]

Text(t) == [fixed |-> "", text |-> t]

\* s.startswith(sub, at i) (1-based)
MatchAt(s, sub, i) ==
    /\ i + Len(sub) - 1 <= Len(s)
    /\ \A j \in 1..Len(sub) : s[i + j - 1] = sub[j]

\* s.find(sub): 0-based position of the first occurrence, -1 if none
find(s, sub) == Least({i \in 1..(Len(s) + 1) : MatchAt(s, sub, i)}, 0) - 1

\* least index j >= i where ". " starts in s, Len(s) + 1 if there is none
NextStop(s, i) ==
    Least({j \in i..(Len(s) - 1) : s[j] = "." /\ s[j + 1] = " "}, Len(s) + 1)

RECURSIVE SentencesFrom(_, _)
\* s.split('. '): the pieces between occurrences of ". ", empty pieces kept
SentencesFrom(s, i) ==
    LET stop == NextStop(s, i)
    IN  IF stop > Len(s) THEN <<SubSeq(s, i, Len(s))>>
        ELSE <<SubSeq(s, i, stop - 1)>> \o SentencesFrom(s, stop + 2)

split_sentences(s) == SentencesFrom(s, 1)

FirstN(seq, n) == SubSeq(seq, 1, Min(n, Len(seq)))

DotSpace == <<".", " ">>

\* QAEngine._generate_fallback_answer
_generate_fallback_answer(context) ==
    LET sentences == split_sentences(context)
    IN  IF Len(sentences) >= 4 THEN join(DotSpace, FirstN(sentences, 4)) \o <<".">>
        ELSE IF Len(sentences) >= 2 THEN join(DotSpace, sentences) \o <<".">>
        ELSE context

\* the sentences _enhance_answer keeps of the window around the answer
KeepSentences(answer, sentences) ==
    IF Len(sentences) > 2 THEN join(DotSpace, FirstN(sentences, 5)) \o <<".">>
    ELSE IF Len(sentences) > 1 THEN join(DotSpace, sentences) \o <<".">>
    ELSE answer

\* lines 132-144: the answer was found at idx in the context
ExpandAround(answer, context, idx) ==
    KeepSentences(answer,
        split_sentences(strip(Slice(context, Max(0, idx - 300),
                                    Min(Len(context), idx + Len(answer) + 500)))))

\* lines 148-152: the answer does not occur in the context
LeadingSentences(context, sentences) ==
    IF Len(sentences) > 3 THEN join(DotSpace, FirstN(sentences, 4)) \o <<".">>
    ELSE context

\* lines 131-152
ExpandAt(answer, context, idx) ==
    IF idx >= 0 THEN ExpandAround(answer, context, idx)
    ELSE LeadingSentences(context, split_sentences(context))

\* lines 155-158: an answer under 50 words gets the first sentences prepended
Substantial(answer, context) ==
    IF Len(split(answer)) < 50
    THEN join(DotSpace, FirstN(split_sentences(context), 3)) \o DotSpace \o answer
    ELSE answer

\* QAEngine._enhance_answer
_enhance_answer(answer, context) ==
    IF Len(split(answer)) < 100
    THEN Substantial(ExpandAt(answer, context, find(context, answer)), context)
    ELSE Substantial(answer, context)

\* what the extractive-QA capability does on one call: it raises, or returns
\* the span [start, end) of the context with a score
QaFails == [ok |-> FALSE, start |-> 0, end |-> 0, score |-> 0]

QaSpan(start, end, score) == [ok |-> TRUE, start |-> start, end |-> end, score |-> score]

\* the pipeline's result dict for an outcome on a context
QaResult(context, out) ==
    [answer |-> Slice(context, Min(out.start, Len(context)), out.end),
     score |-> out.score, start |-> Min(out.start, Len(context)),
     end |-> Min(out.end, Len(context))]

\* a retry only when the first extraction is both too short and too unsure
NeedsRetry_both(result) == Len(split(strip(result.answer))) < 20 /\ result.score < 300

\* line 91: the first extraction is too short or too unsure
NeedsRetry(result) == Len(split(strip(result.answer))) < 20 \/ result.score < 300

\* lines 86-88 and 99-100: answer and score of the extraction that counts
Extracted(result, qa_calls) ==
    [answer |-> strip(result.answer), score |-> result.score,
     start |-> result.start, end |-> result.end, qa_calls |-> qa_calls]

\* the fallback reporting no confidence at all
Fallback_zero_score(answer, qa_calls) ==
    [answer |-> answer, score |-> 0, start |-> 0, end |-> Len(answer),
     qa_calls |-> qa_calls]

\* lines 102-106: the capability raised on its qa_calls-th call
Fallback(answer, qa_calls) ==
    [answer |-> answer, score |-> 500, start |-> 0, end |-> Len(answer),
     qa_calls |-> qa_calls]

\* lines 79-106; env.qa1 and env.qa2 are the outcomes of the first and the
\* second call of the extractive-QA capability
Extraction(context, env) ==
    IF ~env.qa1.ok THEN Fallback(_generate_fallback_answer(context), 1)
    ELSE IF ~NeedsRetry(QaResult(context, env.qa1))
    THEN Extracted(QaResult(context, env.qa1), 1)
    ELSE IF ~env.qa2.ok THEN Fallback(_generate_fallback_answer(context), 2)
    ELSE Extracted(QaResult(context, env.qa2), 2)

\* lines 108-116
Enhanced(context, x) ==
    [answer |-> Text(_enhance_answer(x.answer, context)), score |-> x.score,
     start |-> x.start, end |-> x.end, qa_calls |-> x.qa_calls]

\* lines 74-76: the context cut to its first 2048 words
Truncate(context, words) ==
    IF Len(words) > 2048 THEN join(<<" ">>, FirstN(words, 2048)) ELSE context

AnswerFrom(context, env) == Enhanced(context, Extraction(context, env))

\* answer_question guarding against the empty context only
answer_question_empty_only(question, context, env) ==
    IF context = <<>>
    THEN [answer |-> Fixed("Insufficient context to answer the question."),
          score |-> 0, start |-> 0, end |-> 0, qa_calls |-> 0]
    ELSE AnswerFrom(Truncate(context, split(context)), env)

\* QAEngine.answer_question
answer_question(question, context, env) ==
    IF context = <<>> \/ Len(strip(context)) < 50
    THEN [answer |-> Fixed("Insufficient context to answer the question."),
          score |-> 0, start |-> 0, end |-> 0, qa_calls |-> 0]
    ELSE AnswerFrom(Truncate(context, split(context)), env)

(***************************************************************************)
(* QAEngine: the query pipeline                                            *)
(***************************************************************************)
\* QAEngine._is_valid_question
_is_valid_question(question) ==
    IF question = <<>> \/ Len(strip(question)) < 3 THEN FALSE
    ELSE LET alpha_count == Len(SelectSeq(question, IsAlpha))
             total_chars == Len(strip(question))
         IN  IF total_chars > 0 /\ 2 * alpha_count < total_chars THEN FALSE
             ELSE IF \A i \in 1..Len(question) : ~IsAsciiLetter(question[i]) THEN FALSE
             ELSE TRUE

QueryResult(question, answer, relevant_chunks, confidence, embed_calls, qa_calls, searched) ==
    [raised |-> FALSE, question |-> question, answer |-> answer,
     relevant_chunks |-> relevant_chunks, confidence |-> confidence,
     embed_calls |-> embed_calls, qa_calls |-> qa_calls, searched |-> searched]

\* an exception leaves process_query
Raised(embed_calls, qa_calls, searched) ==
    [raised |-> TRUE, question |-> <<>>, answer |-> Fixed(""),
     relevant_chunks |-> <<>>, confidence |-> 0,
     embed_calls |-> embed_calls, qa_calls |-> qa_calls, searched |-> searched]

NoDocuments == Fixed("No documents have been uploaded yet.")

NotMeaningful ==
    Fixed("Please ask a meaningful question with actual words (not just symbols).")

\* process_query looking at the corpus before it validates the question
process_query_corpus_first(S, question, top_k0, env) ==
    IF Len(S.text_chunks) = 0
    THEN QueryResult(question, NoDocuments, <<>>, 0, 0, 0, FALSE)
    ELSE QueryResult(question, NotMeaningful, <<>>, 0, 0, 0, FALSE)

\* process_query without its empty-corpus guard: the search comes back empty
process_query_unguarded(S, question, top_k0, env) ==
    IF ~_is_valid_question(question)
    THEN QueryResult(question, NotMeaningful, <<>>, 0, 0, 0, FALSE)
    ELSE QueryResult(question, Fixed("No relevant information found in the documents."),
                     <<>>, 0, 0, 0, FALSE)

\* lines 240-254
Answered(question, found, answer_result) ==
    QueryResult(question, answer_result.answer, found.results, answer_result.score,
                found.embed_calls, answer_result.qa_calls, found.searched)

\* line 241
ContextOf(results) == join(<<" ">>, [j \in 1..Len(results) |-> results[j].text])

\* lines 232-254
AfterSearch(question, found, env) ==
    IF found.raised THEN Raised(found.embed_calls, 0, found.searched)
    ELSE IF found.results = <<>>
    THEN QueryResult(question, Fixed("No relevant information found in the documents."),
                     <<>>, 0, found.embed_calls, 0, found.searched)
    ELSE Answered(question, found,
                  answer_question(question, ContextOf(found.results), env))

\* QAEngine.process_query
process_query(S, question, top_k0, env) ==
    IF ~_is_valid_question(question)
    THEN QueryResult(question, NotMeaningful, <<>>, 0, 0, 0, FALSE)
    ELSE IF Len(S.text_chunks) = 0
    THEN QueryResult(question, NoDocuments, <<>>, 0, 0, 0, FALSE)
    ELSE AfterSearch(question,
                     search_similar_chunks(S, question, Min(3, top_k0), env), env)

(***************************************************************************)
(* main.py handlers                                                        *)
(***************************************************************************)
NoData == [none |-> TRUE]

Store(docs, ppc, tc, emb) ==
    [documents |-> docs, pp_text_chunks |-> ppc, text_chunks |-> tc, embeddings |-> emb]

Response(op, name, status, detail, data) ==
    [op |-> op, name |-> name, question |-> <<>>,
     status |-> status, detail |-> detail, data |-> data,
     embed_calls |-> 0, qa_calls |-> 0, searched |-> FALSE]

\* POST /upload
upload_pdf(S, filename, file, embed_ok) ==
    IF ~EndsWithPdf(filename)
    THEN \* HTTPException(400) raised inside the try is caught by `except Exception`
         [state |-> S,
          resp  |-> Response("upload", filename, 500,
                             <<"Error processing PDF", "Only PDF files are allowed">>, NoData)]
    ELSE LET pp == process_pdf(S, file, filename)
         IN  IF pp.raised
             THEN [state |-> Store(pp.documents, pp.pp_text_chunks, S.text_chunks, S.embeddings),
                   resp  |-> Response("upload", filename, 500,
                                      <<"Error processing PDF", "Error extracting text from PDF">>,
                                      NoData)]
             ELSE LET qa == add_documents(S, pp.chunks, embed_ok)
                      after == Store(pp.documents, pp.pp_text_chunks,
                                     qa.text_chunks, qa.embeddings)
                  IN  IF qa.raised
                      THEN [state |-> after,
                            resp  |-> Response("upload", filename, 500,
                                               <<"Error processing PDF", "embedding failed">>,
                                               NoData)]
                      ELSE [state |-> after,
                            resp  |-> Response("upload", filename, 200, <<"success", "">>,
                                               [chunks |-> Len(pp.chunks),
                                                total_documents |-> Len(pp.documents)])]

\* the rebuild loop of delete_document: every stored document's chunks
RECURSIVE AllChunks(_)
AllChunks(docs) ==
    IF docs = <<>> THEN <<>> ELSE Head(docs).chunks \o AllChunks(Tail(docs))

\* delete_document dropping the document from the store and leaving the
\* query corpus as it is
delete_document_keep_corpus(S, doc_name, embed_ok) ==
    IF ~DictHas(S.documents, doc_name)
    THEN [state |-> S,
          resp  |-> Response("delete", doc_name, 500,
                             <<"Error deleting document", "Document not found">>, NoData)]
    ELSE [state |-> [S EXCEPT !.documents = DictDel(S.documents, doc_name)],
          resp  |-> Response("delete", doc_name, 200, <<"success", "">>, NoData)]

\* DELETE /documents/{doc_name}
delete_document(S, doc_name, embed_ok) ==
    IF ~DictHas(S.documents, doc_name)
    THEN \* HTTPException(404) raised inside the try is caught by `except Exception`
         [state |-> S,
          resp  |-> Response("delete", doc_name, 500,
                             <<"Error deleting document", "Document not found">>, NoData)]
    ELSE LET docs       == DictDel(S.documents, doc_name)
             all_chunks == AllChunks(docs)
         IN  IF all_chunks # <<>> /\ ~embed_ok
             THEN [state |-> [S EXCEPT !.documents = docs, !.text_chunks = all_chunks],
                   resp  |-> Response("delete", doc_name, 500,
                                      <<"Error deleting document", "embedding failed">>, NoData)]
             ELSE [state |-> [S EXCEPT !.documents = docs,
                                       !.text_chunks = all_chunks,
                                       !.embeddings = IF all_chunks # <<>>
                                                      THEN encode(all_chunks) ELSE NoIndex],
                   resp  |-> Response("delete", doc_name, 200, <<"success", "">>, NoData)]

AskResponse(question, status, detail, data, embed_calls, qa_calls, searched) ==
    [op |-> "ask", name |-> "", question |-> question,
     status |-> status, detail |-> detail, data |-> data,
     embed_calls |-> embed_calls, qa_calls |-> qa_calls, searched |-> searched]

AskFailure(question, cause, embed_calls, qa_calls, searched) ==
    AskResponse(question, 500, <<"Error processing question", cause>>, NoData,
                embed_calls, qa_calls, searched)

\* lines 92-100: the reply for what process_query did
AskReply(question, result) ==
    IF result.raised
    THEN AskFailure(question, "exception",
                    result.embed_calls, result.qa_calls, result.searched)
    ELSE AskResponse(question, 200, <<"success", "">>,
                     [answer |-> result.answer,
                      relevant_chunks |-> result.relevant_chunks,
                      confidence |-> result.confidence],
                     result.embed_calls, result.qa_calls, result.searched)

\* POST /ask
ask_question(S, question, top_k, env) ==
    [state |-> S,
     resp  |-> IF strip(question) = <<>>
               THEN \* HTTPException(400) raised inside the try is caught by
                    \* `except Exception`
                    AskFailure(question, "Question cannot be empty", 0, 0, FALSE)
               ELSE IF \A i \in 1..Len(question) : ~IsAsciiLetter(question[i])
               THEN AskFailure(question,
                               "Question must contain actual words, not just symbols",
                               0, 0, FALSE)
               ELSE AskReply(question, process_query(S, question, top_k, env))]

\* DELETE /clear
clear_all(S) ==
    LET qa == clear_documents(S)
    IN  [state |-> Store(<<>>, <<>>, qa.text_chunks, qa.embeddings),
         resp  |-> Response("clear", "", 200, <<"success", "">>, NoData)]

(***************************************************************************)
(* Inputs                                                                  *)
(***************************************************************************)
Filenames == {"a.pdf", "b.pdf", "n.txt"}

\* an uploaded body: PyPDF2 either raises on it or extracts `text` from it
Corrupt == [readable |-> FALSE, text |-> <<>>]

Pdf(text) == [readable |-> TRUE, text |-> text]

Rep(c, n) == [i \in 1..n |-> c]

\* two sentences of one long word each, long enough to pass the context guard
LongText == Rep("a", WordLen) \o <<".", " ">> \o Rep("b", WordLen)

Files ==
    { Corrupt,
      Pdf(<<>>),
      Pdf(<<"x", "\n", NUL>>),
      Pdf(LongText) }

Questions ==
    { <<>>,
      <<" ">>,
      <<"?", "?", "?">>,
      <<"a", "?">>,
      <<"a", " ", "b", "?">> }

TopKs == {1, 3}

\* what the opaque capabilities do during one request.  Outcomes of calls that
\* are never made are fixed: no QA call follows a failed embedding, no second
\* QA call follows a failed first one.
Envs ==
    { e \in [embed_ok : BOOLEAN,
             tie : {"lowest", "highest"},
             qa1 : {QaFails, QaSpan(0, 3, 900)},
             qa2 : {QaFails, QaSpan(0, WordLen, 400)}] :
        /\ ~e.embed_ok => e.tie = "lowest" /\ e.qa1 = QaFails
        /\ ~e.qa1.ok => e.qa2 = QaFails }

QuietEnv == [embed_ok |-> FALSE, tie |-> "lowest", qa1 |-> QaFails, qa2 |-> QaFails]

\* the chunks a body adds to PDFProcessor.text_chunks
Growth(file) == IF file.readable THEN Len(chunk_text(pdf_processor, _clean_text(file.text), 0, 0)) ELSE 0

(***************************************************************************)
(* State machine                                                           *)
(***************************************************************************)
S == Store(documents, pp_text_chunks, text_chunks, embeddings)

\* call is the record of a component called on its own, outside a request;
\* the handlers never touch it
NoCall == [op |-> "none", step |-> "done"]

\* history is a record kept beside the program's state in the runs that
\* follow where corpus entries come from: origin[i] is the name of the upload
\* that put text_chunks[i] into the query corpus, purged the names deleted
\* with success and not stored again since
NoHistory == [origin |-> <<>>, purged |-> {}]

Commit(r) ==
    /\ documents' = r.state.documents
    /\ pp_text_chunks' = r.state.pp_text_chunks
    /\ text_chunks' = r.state.text_chunks
    /\ embeddings' = r.state.embeddings
    /\ last' = r.resp
    /\ UNCHANGED <<call, history>>

Init ==
    /\ documents = <<>>
    /\ pp_text_chunks = <<>>
    /\ text_chunks = <<>>
    /\ embeddings = NoIndex
    /\ last = Response("init", "", 200, <<"success", "">>, NoData)
    /\ call = NoCall
    /\ history = NoHistory

Upload ==
    \E filename \in Filenames, file \in Files, embed_ok \in BOOLEAN :
        /\ Len(pp_text_chunks) + Growth(file) <= MaxChunks
        /\ Commit(upload_pdf(S, filename, file, embed_ok))

Delete ==
    \E doc_name \in Filenames, embed_ok \in BOOLEAN :
        Commit(delete_document(S, doc_name, embed_ok))

Clear == Commit(clear_all(S))

\* the capabilities' behaviours that matter to a request: one only if the
\* request ends before its first capability call
EnvsFor(question) ==
    IF \/ strip(question) = <<>>
       \/ ~_is_valid_question(question)
       \/ Len(text_chunks) = 0
    THEN {QuietEnv}
    ELSE Envs

Ask ==
    \E question \in Questions, top_k \in TopKs :
        \E env \in EnvsFor(question) :
            \* the handler reads the store and assigns nothing
            /\ last' = ask_question(S, question, top_k, env).resp
            /\ UNCHANGED <<documents, pp_text_chunks, text_chunks, embeddings, call, history>>

Next == Upload \/ Delete \/ Clear \/ Ask

Spec == Init /\ [][Next]_vars

\* the requests of a run in which no request fails
UploadOk ==
    \E filename \in Filenames, file \in Files :
        /\ Len(pp_text_chunks) + Growth(file) <= MaxChunks
        /\ upload_pdf(S, filename, file, TRUE).resp.status = 200
        /\ Commit(upload_pdf(S, filename, file, TRUE))

DeleteOk ==
    \E doc_name \in Filenames :
        /\ delete_document(S, doc_name, TRUE).resp.status = 200
        /\ Commit(delete_document(S, doc_name, TRUE))

ClearOk == Commit(clear_all(S))

NextOk == UploadOk \/ DeleteOk \/ ClearOk

SpecOk == Init /\ [][NextOk]_vars

(***************************************************************************)
(* The handlers again, with the history of the corpus entries kept beside  *)
(* the state                                                               *)
(***************************************************************************)
Track(r, h) ==
    /\ documents' = r.state.documents
    /\ pp_text_chunks' = r.state.pp_text_chunks
    /\ text_chunks' = r.state.text_chunks
    /\ embeddings' = r.state.embeddings
    /\ last' = r.resp
    /\ history' = h
    /\ UNCHANGED call

\* the names the rebuild loop of delete_document takes its chunks from
RECURSIVE OriginOf(_)
OriginOf(docs) ==
    IF docs = <<>> THEN <<>>
    ELSE [j \in 1..Len(Head(docs).chunks) |-> Head(docs).name] \o OriginOf(Tail(docs))

\* upload_pdf reaches add_documents once process_pdf has stored the document;
\* the chunks it appends to the corpus come from filename
UploadHistory(h, filename, file, r) ==
    IF EndsWithPdf(filename) /\ ~extract_text_from_pdf(file).raised
    THEN [origin |-> h.origin \o [j \in 1..(Len(r.state.text_chunks) - Len(h.origin))
                                     |-> filename],
          purged |-> h.purged \ {filename}]
    ELSE h

\* delete_document rebuilds the corpus from the stored documents once it has
\* found doc_name; the delete succeeded if it answers 200
DeleteHistory(h, r) ==
    [origin |-> IF r.resp.detail[2] = "Document not found"
                THEN h.origin ELSE OriginOf(r.state.documents),
     purged |-> IF r.resp.status = 200 THEN h.purged \cup {r.resp.name} ELSE h.purged]

TrackedUpload ==
    \E filename \in Filenames, file \in Files, embed_ok \in BOOLEAN :
        /\ Len(pp_text_chunks) + Growth(file) <= MaxChunks
        /\ Track(upload_pdf(S, filename, file, embed_ok),
                 UploadHistory(history, filename, file,
                               upload_pdf(S, filename, file, embed_ok)))

TrackedDelete ==
    \E doc_name \in Filenames, embed_ok \in BOOLEAN :
        Track(delete_document(S, doc_name, embed_ok),
              DeleteHistory(history, delete_document(S, doc_name, embed_ok)))

TrackedClear == Track(clear_all(S), [history EXCEPT !.origin = <<>>])

\* the capabilities during a tracked request: every outcome of the embedding
\* and of torch.topk, the extractive-QA capability down
TrackedEnvsFor(question) == {e \in EnvsFor(question) : ~e.qa1.ok}

\* the questions that get as far as the corpus
TrackedQuestions == {q \in Questions : _is_valid_question(q)}

TrackedAsk ==
    \E question \in TrackedQuestions, top_k \in TopKs :
        \E env \in TrackedEnvsFor(question) :
            /\ last' = ask_question(S, question, top_k, env).resp
            /\ UNCHANGED <<documents, pp_text_chunks, text_chunks, embeddings, call, history>>

NextTracked == TrackedUpload \/ TrackedDelete \/ TrackedClear \/ TrackedAsk

SpecTracked == Init /\ [][NextTracked]_vars

(***************************************************************************)
(* Components called on their own: each behaviour is one call, its inputs  *)
(* drawn by the initial state                                              *)
(***************************************************************************)
\* the i-th word of a text: i letters, so no two words of a text are equal
Word(i) == Rep("a", i)

WordsText(n) == join(<<" ">>, [i \in 1..n |-> Word(i)])

Texts ==
    {WordsText(n) : n \in 0..MaxWords}
        \cup {<<" ">>, <<" ", "a", "\n", "\n", "b", " ">>}

\* the arguments PDFProcessor is constructed with: the defaults, the pair of
\* the specification's scenario, and pairs with no or too much overlap
InitArgs ==
    {<<chunk_size, overlap>>, <<5, 2>>, <<2, 0>>, <<2, 2>>, <<1, 3>>, <<MaxChunkSize, 1>>}

\* PDFProcessor(c, o).chunk_text(text, cs, ov); cs, ov = 0 when left out
ChunkCalls ==
    [op : {"chunk_text"}, step : {"new"}, init : InitArgs,
     self : {PDFProcessor(0, 0)}, text : Texts,
     cs : 0..MaxChunkSize, ov : 0..MaxChunkSize, chunks : {<<>>}]

\* corpora of the query engine, each with the index add_documents builds
Corpora ==
    { <<>>,
      << <<"a">> >>,
      << <<"a">>, <<"b">> >>,
      << <<"a", " ", "b">>, <<"b">>, <<"x">> >>,
      << <<"a">>, <<"a">>, <<"b">> >> }

IndexOf(corpus) == IF corpus = <<>> THEN NoIndex ELSE encode(corpus)

\* the engine holding a corpus and its index
Engine(corpus) == Store(<<>>, <<>>, corpus, IndexOf(corpus))

Queries == { <<"a">>, <<"a", " ", "b">>, <<"?", "?", "?">> }

\* the embedding capability answers (with either order among equal scores)
\* or raises
SearchEnvs ==
    { [embed_ok |-> TRUE, tie |-> "lowest", qa1 |-> QaFails, qa2 |-> QaFails],
      [embed_ok |-> TRUE, tie |-> "highest", qa1 |-> QaFails, qa2 |-> QaFails],
      QuietEnv }

\* QAEngine.search_similar_chunks(query, top_k) on an engine
SearchCalls ==
    [op : {"search"}, step : {"new"}, corpus : Corpora, query : Queries,
     top_k : (-1)..MaxTopK, env : SearchEnvs, found : {SearchFound(<<>>, 0)}]

\* the question of the specification's example
CapitalOfFrance ==
    <<"W", "h", "a", "t", " ", "i", "s", " ", "t", "h", "e", " ",
      "c", "a", "p", "i", "t", "a", "l", " ", "o", "f", " ",
      "F", "r", "a", "n", "c", "e", "?">>

\* questions around each test of the validator
ValidatorQuestions ==
    { <<>>, <<" ">>, <<" ", "\n", " ">>,
      <<"a", "b">>, <<" ", "a", "b", " ">>, <<"a", "b", "c">>, <<"a", " ", "b">>,
      <<"?", "?", "?">>, <<"a", "?", "?">>, <<"a", "b", "?", "?">>,
      <<"a", "?", "?", "?">>, <<" ", "a", "b", "?", "?", "?", " ">>,
      <<"é", "é", "é">>, <<"é", "é", "a", "?">>, <<"é", "?", "?">>,
      CapitalOfFrance }

\* QAEngine._is_valid_question(question)
ValidatorCalls ==
    [op : {"is_valid"}, step : {"new"}, question : ValidatorQuestions, valid : {FALSE}]

\* 26 one-letter words: 51 characters, spans of 19 and 20 words end at 37, 39
ManyWords == join(<<" ">>, [i \in 1..26 |-> <<"a">>])

\* five sentences, 54 characters
FiveSentences ==
    join(DotSpace, << Rep("a", 10), Rep("b", 10), Rep("x", 10), Rep("a", 8), Rep("b", 8) >>)

\* contexts on both sides of the 50-character guard
Contexts ==
    { <<>>, <<"x">>, Rep("a", 49), Rep("a", 50),
      <<" ">> \o Rep("a", 49) \o <<" ">>,
      LongText, ManyWords, FiveSentences }

\* what the extractive-QA capability does on its first and second call: it
\* raises, or returns a span short or long, sure or unsure
AnswerEnvs ==
    { e \in [embed_ok : {TRUE},
             tie : {"lowest"},
             qa1 : {QaFails, QaSpan(0, 3, 900), QaSpan(0, 37, 900),
                    QaSpan(0, 39, 900), QaSpan(0, 39, 299), QaSpan(0, 39, 300)},
             qa2 : {QaFails, QaSpan(2, 9, 400)}] :
        ~e.qa1.ok => e.qa2 = QaFails }

\* QAEngine.answer_question(question, context)
AnswerCalls ==
    [op : {"answer"}, step : {"new"}, question : {<<"a", " ", "b", "?">>},
     context : Contexts, env : AnswerEnvs,
     result : {[answer |-> Fixed(""), score |-> 0, start |-> 0, end |-> 0, qa_calls |-> 0]}]

\* corpora whose chunks are long enough to pass the context guard, too
QueryCorpora == Corpora \cup { << LongText >>, << ManyWords, <<"b">> >> }

\* QAEngine.process_query(question, top_k) on an engine
QueryCalls ==
    [op : {"query"}, step : {"new"}, corpus : QueryCorpora,
     question : { <<"a", " ", "b", "?">>, <<"?", "?", "?">> },
     top_k : (-1)..MaxTopK, env : Envs, result : {Raised(0, 0, FALSE)}]

Calls == ChunkCalls \cup SearchCalls \cup ValidatorCalls \cup AnswerCalls \cup QueryCalls

Construct ==
    /\ call.op = "chunk_text"
    /\ call.step = "new"
    /\ call' = [call EXCEPT !.step = "constructed",
                            !.self = PDFProcessor(call.init[1], call.init[2])]
    /\ UNCHANGED <<documents, pp_text_chunks, text_chunks, embeddings, last, history>>

Chunk ==
    /\ call.op = "chunk_text"
    /\ call.step = "constructed"
    /\ call' = [call EXCEPT !.step = "done",
                            !.chunks = chunk_text(call.self, call.text, call.cs, call.ov)]
    /\ UNCHANGED <<documents, pp_text_chunks, text_chunks, embeddings, last, history>>

Search ==
    /\ call.op = "search"
    /\ call.step = "new"
    /\ call' = [call EXCEPT !.step = "done",
                            !.found = search_similar_chunks(Engine(call.corpus), call.query,
                                                            call.top_k, call.env)]
    /\ UNCHANGED <<documents, pp_text_chunks, text_chunks, embeddings, last, history>>

Validate ==
    /\ call.op = "is_valid"
    /\ call.step = "new"
    /\ call' = [call EXCEPT !.step = "done",
                            !.valid = _is_valid_question(call.question)]
    /\ UNCHANGED <<documents, pp_text_chunks, text_chunks, embeddings, last, history>>

Answer ==
    /\ call.op = "answer"
    /\ call.step = "new"
    /\ call' = [call EXCEPT !.step = "done",
                            !.result = answer_question(call.question, call.context, call.env)]
    /\ UNCHANGED <<documents, pp_text_chunks, text_chunks, embeddings, last, history>>

Query ==
    /\ call.op = "query"
    /\ call.step = "new"
    /\ call' = [call EXCEPT !.step = "done",
                            !.result = process_query(Engine(call.corpus), call.question,
                                                     call.top_k, call.env)]
    /\ UNCHANGED <<documents, pp_text_chunks, text_chunks, embeddings, last, history>>

InitCalls ==
    /\ documents = <<>>
    /\ pp_text_chunks = <<>>
    /\ text_chunks = <<>>
    /\ embeddings = NoIndex
    /\ last = Response("init", "", 200, <<"success", "">>, NoData)
    /\ call \in Calls
    /\ history = NoHistory

NextCalls == Construct \/ Chunk \/ Search \/ Validate \/ Answer \/ Query

SpecCalls == InitCalls /\ [][NextCalls]_vars

(***************************************************************************)
(* Properties                                                              *)
(***************************************************************************)
PdfNames == {f \in Filenames : EndsWithPdf(f)}

\* C1: after any sequence of successful uploads, deletes and clears the
\* embedding index is absent or has exactly one vector per corpus chunk, and
\* it is absent only when the corpus is empty.
IndexMatchesCorpus ==
    /\ embeddings.is_none => text_chunks = <<>>
    /\ ~embeddings.is_none => Len(embeddings.rows) = Len(text_chunks)

\* a successful delete has just rebuilt the index over the remaining chunks
IndexRebuiltOverCorpus ==
    /\ last.op = "delete"
    /\ last.status = 200
    /\ ~embeddings.is_none
    /\ Len(text_chunks) >= 1
    /\ Len(embeddings.rows) = Len(text_chunks)

\* C2: after any sequence of successful uploads, deletes and clears the query
\* corpus is the concatenation, in document insertion order then chunk order,
\* of the chunk lists of the stored documents.
CorpusIsStoreConcatenation == text_chunks = AllChunks(documents)

\* C3: uploading a document under a name not stored and then deleting it
\* leaves the query corpus and the document store as they were before.
UploadThenDeleteRestores ==
    \A filename \in PdfNames \ DictNames(documents) :
        \A file \in {f \in Files : f.readable} :
            LET up  == upload_pdf(S, filename, file, TRUE)
                del == delete_document(up.state, filename, TRUE)
            IN  (up.resp.status = 200 /\ del.resp.status = 200)
                    => /\ del.state.text_chunks = text_chunks
                       /\ del.state.documents = documents

\* C4: an upload or delete whose index rebuild fails in the embedding
\* capability leaves the document store, the query corpus and the index as
\* they were before the request.
EmbeddingFailureLeavesState ==
    [][(last'.op \in {"upload", "delete"} /\ last'.detail[2] = "embedding failed")
          => UNCHANGED <<documents, text_chunks, embeddings>>]_vars

\* C5: the similarity search of a query reads a corpus and an index that
\* belong together: the same length, and every index row the embedding of the
\* chunk at its position.
SearchReadsAlignedPair ==
    (last.op = "ask" /\ last.searched)
        => /\ ~embeddings.is_none
           /\ embeddings = encode(text_chunks)

\* the reply to a valid question on an empty corpus
IsNoDocumentsReply(r) ==
    /\ r.status = 200
    /\ r.data.answer = NoDocuments
    /\ r.data.confidence = 0
    /\ r.data.relevant_chunks = <<>>
    /\ r.embed_calls = 0
    /\ r.qa_calls = 0

\* C6: whenever the corpus is empty (initially, after a clear, after deleting
\* the only stored document) a valid question is answered with the fixed
\* no-documents answer, confidence 0.0 and no relevant chunks, and neither the
\* embedding nor the extractive-QA capability is invoked.
EmptyCorpusAnswer ==
    (\/ Len(text_chunks) = 0
     \/ last.op \in {"init", "clear"}
     \/ (last.op = "delete" /\ last.status = 200 /\ documents = <<>>))
        => \A question \in Questions, top_k \in TopKs, env \in Envs :
               _is_valid_question(question)
                   => /\ IsNoDocumentsReply(ask_question(S, question, top_k, env).resp)
                      /\ process_query(S, question, top_k, env)
                             = QueryResult(question, NoDocuments, <<>>, 0, 0, 0, FALSE)

\* a valid question was asked after the last stored document was deleted
AskedAfterLastDelete ==
    /\ last.op = "ask"
    /\ _is_valid_question(last.question)
    /\ text_chunks = <<>>
    /\ pp_text_chunks # <<>>
    /\ IsNoDocumentsReply(last)

\* C7: for every question the validator rejects, in every corpus state,
\* process_query returns the fixed explanatory answer with confidence 0.0 and
\* no relevant chunks, without an embedding or extractive-QA call.
ValidationComesFirst ==
    \A question \in Questions, top_k \in TopKs, env \in Envs :
        ~_is_valid_question(question)
            => process_query(S, question, top_k, env)
                   = QueryResult(question, NotMeaningful, <<>>, 0, 0, 0, FALSE)

\* a rejected question reached process_query while documents were indexed
RejectedWithCorpus ==
    /\ last.op = "ask"
    /\ last.status = 200
    /\ ~_is_valid_question(last.question)
    /\ text_chunks # <<>>
    /\ last.data.answer = NotMeaningful
    /\ last.embed_calls = 0
    /\ last.qa_calls = 0

\* empty, whitespace-only or without any letter
Malformed(question) ==
    \/ strip(question) = <<>>
    \/ \A i \in 1..Len(question) : ~IsAlpha(question[i])

\* C8: a malformed question sent to /ask is never answered with an error: the
\* caller gets a normal result with the fixed explanatory answer and score 0.0.
MalformedQuestionNotAnError ==
    (last.op = "ask" /\ Malformed(last.question))
        => /\ last.status = 200
           /\ last.data.answer = NotMeaningful
           /\ last.data.confidence = 0

\* C9: deleting a name that is not stored fails with the not-found status and
\* leaves the document store, the query corpus and the index unchanged.
DeleteUnknownIsNotFound ==
    [][(last'.op = "delete" /\ ~DictHas(documents, last'.name))
          => /\ last'.status = 404
             /\ UNCHANGED <<documents, text_chunks, embeddings>>]_vars

\* C10: an upload whose text extraction fails, under a new name or a stored
\* one, ends in an error and leaves the document store, the query corpus and
\* the index as they were.
ExtractionFailureAborts ==
    \A filename \in PdfNames, file \in {f \in Files : ~f.readable}, embed_ok \in BOOLEAN :
        LET r == upload_pdf(S, filename, file, embed_ok)
        IN  /\ r.resp.status = 500
            /\ r.state.documents = documents
            /\ r.state.text_chunks = text_chunks
            /\ r.state.embeddings = embeddings

\* an upload under a stored name has just failed in text extraction
FailedReuploadOfStoredName ==
    /\ last.op = "upload"
    /\ last.status = 500
    /\ last.detail[2] = "Error extracting text from PDF"
    /\ DictHas(documents, last.name)
    /\ text_chunks # <<>>

\* the chunk size and the overlap a finished chunk_text call worked with
ChunkSizeOf(c) == OrDefault(c.cs, c.self.chunk_size)

OverlapOf(c) == OrDefault(c.ov, c.self.overlap)

ChunkDone == call.op = "chunk_text" /\ call.step = "done"

\* the words of the j-th chunk of the finished call
ChunkWords(j) == split(call.chunks[j])

\* C12: for a chunk size >= 1 and an overlap with 0 <= overlap < chunk size,
\* passed or configured, no chunk has more than chunk-size words and every
\* chunk but possibly the last has exactly chunk-size words.
ChunksWithinSize ==
    (ChunkDone /\ ChunkSizeOf(call) >= 1 /\ OverlapOf(call) < ChunkSizeOf(call))
        => \A j \in 1..Len(call.chunks) :
               /\ Len(ChunkWords(j)) <= ChunkSizeOf(call)
               /\ j < Len(call.chunks) => Len(ChunkWords(j)) = ChunkSizeOf(call)

\* C13: for 0 < overlap < chunk size, every chunk after the first, except
\* possibly the last, starts with exactly the last `overlap` words of the
\* chunk before it, and its next word is the next unread word of the text.
ChunksOverlapExactly ==
    (ChunkDone /\ 0 < OverlapOf(call) /\ OverlapOf(call) < ChunkSizeOf(call))
        => \A j \in 2..(Len(call.chunks) - 1) :
               /\ FirstN(ChunkWords(j), OverlapOf(call))
                      = LastN(ChunkWords(j - 1), OverlapOf(call))
               /\ ChunkWords(j)[OverlapOf(call) + 1]
                      = split(call.text)[ChunkSizeOf(call)
                            + (j - 2) * (ChunkSizeOf(call) - OverlapOf(call)) + 1]

\* a text chunked with chunk size 5 and overlap 2 into three chunks or more
ChunkedFiveTwo ==
    /\ ChunkDone
    /\ ChunkSizeOf(call) = 5
    /\ OverlapOf(call) = 2
    /\ Len(call.chunks) >= 3

\* C14 as stated: at least one chunk for a non-empty text, none for the
\* empty text.
NonEmptyTextHasChunk ==
    ChunkDone => /\ call.text # <<>> => Len(call.chunks) >= 1
                 /\ call.text = <<>> => Len(call.chunks) = 0

\* C14 amended: at least one chunk for a text with at least one word, none
\* for a text without words (empty or whitespace only).
TextWithWordHasChunk ==
    ChunkDone => /\ split(call.text) # <<>> => Len(call.chunks) >= 1
                 /\ split(call.text) = <<>> => Len(call.chunks) = 0

\* a text of words and whitespace runs was chunked under the defaults
ChunkedSpacedText ==
    /\ ChunkDone
    /\ call.text = <<" ", "a", "\n", "\n", "b", " ">>
    /\ call.cs = 0
    /\ call.ov = 0
    /\ Len(call.chunks) >= 1

\* C15: a configuration with overlap >= chunk size is rejected when the
\* chunker is set up, and no text is chunked under one.
DegenerateConfigRejected ==
    /\ (call.op = "chunk_text" /\ call.step # "new")
           => call.self.overlap < call.self.chunk_size
    /\ ChunkDone => OverlapOf(call) < ChunkSizeOf(call)

SearchDone == call.op = "search" /\ call.step = "done"

\* the similarity of the call's query to the chunk at position p
ScoreAt(p) == cos_sim(Embed(call.query), IndexOf(call.corpus).rows[p])

\* C11: on a non-empty corpus with its index and k >= 1 the search returns
\* at most min(k, corpus size) pairs, each the chunk of a corpus position with
\* that position's score, in non-increasing order of score; on an empty
\* corpus it returns the empty sequence.
SearchRanksTopK ==
    (SearchDone /\ call.env.embed_ok)
        => IF call.corpus = <<>>
           THEN ~call.found.raised /\ call.found.results = <<>>
           ELSE call.top_k >= 1
                    => /\ ~call.found.raised
                       /\ Len(call.found.results) <= Min(call.top_k, Len(call.corpus))
                       /\ \A j \in 1..Len(call.found.results) :
                              \E p \in 1..Len(call.corpus) :
                                  /\ call.found.results[j].text = call.corpus[p]
                                  /\ call.found.results[j].similarity = ScoreAt(p)
                       /\ \A j \in 1..(Len(call.found.results) - 1) :
                              call.found.results[j].similarity
                                  >= call.found.results[j + 1].similarity

\* a search for two of three chunks that score differently
SearchedTwoOfThree ==
    /\ SearchDone
    /\ Len(call.corpus) = 3
    /\ call.top_k = 2
    /\ Len(call.found.results) = 2
    /\ call.found.results[1].similarity > call.found.results[2].similarity

\* the questions C16 says are rejected; alphabetic is str.isalpha
RejectedByRule(q) ==
    \/ strip(q) = <<>>
    \/ Len(strip(q)) < 3
    \/ 2 * Len(SelectSeq(q, IsAlpha)) < Len(strip(q))
    \/ \A i \in 1..Len(q) : ~IsAlpha(q[i])

\* C16: the validator returns false exactly for a question that is empty or
\* whitespace only, or shorter than 3 characters once trimmed, or less than
\* half alphabetic, or without any run of alphabetic characters.
ValidatorMatchesRule ==
    (call.op = "is_valid" /\ call.step = "done")
        => (call.valid <=> ~RejectedByRule(call.question))

AnswerDone == call.op = "answer" /\ call.step = "done"

\* C17: on a context that is empty or shorter than 50 characters the answer
\* is the fixed insufficient-context message with score 0 and span 0/0, and
\* the extractive-QA capability is not invoked.
ShortContextShortCircuits ==
    (AnswerDone /\ Len(call.context) < 50)
        => /\ call.result.answer = Fixed("Insufficient context to answer the question.")
           /\ call.result.score = 0
           /\ call.result.start = 0
           /\ call.result.end = 0
           /\ call.result.qa_calls = 0

\* a 49-character context was answered while the capability was ready
AnsweredShortContext ==
    /\ AnswerDone
    /\ Len(call.context) = 49
    /\ call.env.qa1.ok
    /\ call.result.qa_calls = 0

\* what the first and the second invocation return on the call's context
FirstExtraction == QaResult(call.context, call.env.qa1)

SecondExtraction == QaResult(call.context, call.env.qa2)

\* the extraction the finished call made last
LastExtraction == IF call.result.qa_calls = 2 THEN SecondExtraction ELSE FirstExtraction

\* C18: the capability is invoked at most twice; the second invocation
\* happens exactly when the first succeeded with an answer under 20 words or
\* a confidence under 0.3; when no invocation fails the score and the span
\* returned are those of the last invocation.
RetryAtMostOnce ==
    AnswerDone
        => /\ call.result.qa_calls <= 2
           /\ call.result.qa_calls = 2
                  <=> /\ call.result.qa_calls >= 1
                      /\ call.env.qa1.ok
                      /\ \/ Len(split(strip(FirstExtraction.answer))) < 20
                         \/ call.env.qa1.score < 300
           /\ (/\ call.result.qa_calls >= 1
               /\ call.env.qa1.ok
               /\ call.result.qa_calls = 2 => call.env.qa2.ok)
                  => /\ call.result.score = LastExtraction.score
                     /\ call.result.start = LastExtraction.start
                     /\ call.result.end = LastExtraction.end

\* a first answer of 20 words was retried for its low confidence alone
RetriedForLowConfidence ==
    /\ AnswerDone
    /\ call.env.qa1.ok
    /\ Len(split(strip(FirstExtraction.answer))) >= 20
    /\ call.env.qa1.score < 300
    /\ call.env.qa2.ok
    /\ call.result.qa_calls = 2
    /\ call.result.score = call.env.qa2.score

QueryDone == call.op = "query" /\ call.step = "done"

\* the last invocation of the extractive-QA capability in the call raised
CapabilityFailed ==
    \/ call.result.qa_calls = 1 /\ ~call.env.qa1.ok
    \/ call.result.qa_calls = 2 /\ ~call.env.qa2.ok

\* the first sentence of a context, trimmed
FirstSentence(context) == strip(split_sentences(context)[1])

\* C19: when the extractive-QA capability fails, on the first extraction or
\* on the retry, the synthesizer returns a text holding the leading sentence
\* of the context with confidence 0.5, whatever an earlier extraction
\* scored, and the query returns a normal result.
ExtractionFailureFallsBack ==
    /\ (AnswerDone /\ CapabilityFailed)
           => /\ call.result.score = 500
              /\ call.result.answer.fixed = ""
              /\ find(call.result.answer.text, FirstSentence(call.context)) >= 0
    /\ (QueryDone /\ CapabilityFailed)
           => /\ ~call.result.raised
              /\ call.result.confidence = 500
              /\ call.result.answer.fixed = ""
              /\ call.result.relevant_chunks # <<>>

\* the retry raised after a first extraction that had scored 0.9
RetryFailedAfterSureAnswer ==
    /\ AnswerDone
    /\ call.env.qa1.ok
    /\ call.env.qa1.score = 900
    /\ call.result.qa_calls = 2
    /\ ~call.env.qa2.ok
    /\ call.result.score = 500

\* C20: for a valid question, a non-empty corpus and any integer result
\* count k, the query completes without raising and returns at most
\* min(k, 3, corpus size) retrieved entries.
QueryClampsResultCount ==
    (/\ QueryDone
     /\ _is_valid_question(call.question)
     /\ call.corpus # <<>>
     /\ call.env.embed_ok)
        => /\ ~call.result.raised
           /\ Len(call.result.relevant_chunks)
                  <= Min(call.top_k, Min(3, Len(call.corpus)))

\* the texts the last request returned as retrieved chunks
ReturnedChunks ==
    IF last.op = "ask" /\ last.status = 200 THEN last.data.relevant_chunks ELSE <<>>

\* C21: right after a successful delete every corpus entry is a chunk of a
\* document still stored, and from then on, until the deleted name is
\* stored again, no corpus entry comes from it and every chunk a query
\* returns is a corpus entry that does not come from it.
DeletedDocumentStaysOut ==
    /\ (last.op = "delete" /\ last.status = 200) => text_chunks = AllChunks(documents)
    /\ \A i \in 1..Len(history.origin) : history.origin[i] \notin history.purged
    /\ \A j \in 1..Len(ReturnedChunks) :
           \E i \in 1..Len(history.origin) :
               /\ i <= Len(text_chunks)
               /\ text_chunks[i] = ReturnedChunks[j].text
               /\ history.origin[i] \notin history.purged

\* a query returned a chunk after a document had been deleted for good
AskedAfterPurge ==
    /\ history.purged # {}
    /\ Len(ReturnedChunks) >= 1

\* the words of chunks j.. of the finished call, the first ov words of each
\* chunk after the first dropped
RECURSIVE Unchunk(_, _)
Unchunk(j, ov) ==
    IF j > Len(call.chunks) THEN <<>>
    ELSE (IF j = 1 THEN ChunkWords(j)
          ELSE SubSeq(ChunkWords(j), ov + 1, Len(ChunkWords(j))))
             \o Unchunk(j + 1, ov)

\* C22: for 0 < overlap < chunk size, the first chunk followed by every later
\* chunk without its first `overlap` words is the word sequence of the text,
\* and every chunk after the first holds at least one word beyond those
\* carried over.
ChunkingLosesNothing ==
    (ChunkDone /\ 0 < OverlapOf(call) /\ OverlapOf(call) < ChunkSizeOf(call))
        => /\ Unchunk(1, OverlapOf(call)) = split(call.text)
           /\ \A j \in 2..Len(call.chunks) : Len(ChunkWords(j)) > OverlapOf(call)
====
